---- MODULE Spec2Model ----
(***************************************************************************)
(* The in-memory task collection of the kanban board (class TaskList) and  *)
(* its drag-and-drop status transition.                                    *)
(*                                                                         *)
(* JavaScript values are modelled with their identity: a Task is an object *)
(* on the heap and an array is an object in the array store, so that a     *)
(* shallow copy ([...xs], xs.filter(..)) is a new array holding the same   *)
(* Task objects.  A Task reference is an index into heap, an array         *)
(* reference is a key of arrays.                                           *)
(***************************************************************************)
EXTENDS Integers, Sequences, FiniteSets, TLC

\* Most Task objects ever created (seeded plus added).
MaxTasks == 3

\* Longest seed sequence handed to the constructor.
MaxSeed == 2

\* Most refreshes of the board that are followed.
MaxRefresh == 3

\* The closed status enumeration, in column order.
COLUMN_TITLES == <<"To Do", "In Progress", "Done">>

TaskStatus == {COLUMN_TITLES[i] : i \in 1..Len(COLUMN_TITLES)}

\* Task ids the callers use: any string, the empty string included.
TaskIds == {"", "t1", "t2"}

\* The ids used while the read operations are exercised.
ReadIds == {"t1", "t2"}

\* The fixed, well-known key of the drag transfer payload.
DRAG_KEY == "taskId"

\* The array objects: the seed sequence the constructor is given (a temporary
\* of the constructing expression), the array this.tasks is initialised with,
\* and the array returned by the latest read operation.
SEED == "seed"
OWN == "own"
SNAP == "snap"
NONE == "none"
SECOND == "second"

\* In the record of a call: an argument the call does not take.
NoArg == "-"

VARIABLES
    heap,      \* the Task objects: heap[r] = [id |-> .., status |-> ..]
    arrays,    \* the array objects: arrays[a] is a sequence of Task references
    tasks,     \* this.tasks: the reference of the collection's array
    held,      \* the array reference the caller holds from the latest read
    channel,   \* the DataTransfer of the drag gesture: key -> string
    refreshKey,\* the board's refresh counter (useState(0))
    columns,   \* the board's latest render: column title -> the tasks shown
    inserted,  \* history: the Task references in the order seeded then added
    last       \* history: the latest call, its arguments and what it returned

vars == <<heap, arrays, tasks, held, channel, refreshKey, columns, inserted, last>>

Task(id, status) == [id |-> id, status |-> status]

\* The record of a call that completed normally; ret is <<>> for a call that
\* returns nothing.
Call(op, id, status, ret) ==
    [op |-> op, id |-> id, status |-> status, ret |-> ret, threw |-> FALSE]

\* The record of a call with the outcome r of its method: what it returned,
\* or that it raised an error (and so returned nothing).
CallOf(op, id, status, r) ==
    [op |-> op, id |-> id, status |-> status,
     ret |-> IF r.threw THEN <<>> ELSE <<r.ret>>, threw |-> r.threw]

----------------------------------------------------------------------------
(* Array helpers of the language *)

\* [...xs]: the elements of array a, for a new array to hold.
Spread(A, a) == A[a]

SeqRange(s) == {s[i] : i \in 1..Len(s)}

Reverse(s) == [i \in 1..Len(s) |-> s[Len(s) + 1 - i]]

\* The records an array of Task references shows to whoever reads it.
Contents(H, s) == [i \in 1..Len(s) |-> H[s[i]]]

----------------------------------------------------------------------------
(* class TaskList *)

\* constructor(initialTasks): this.tasks = [...initialTasks]
constructor(A, initialTasks) ==
    [arrays |-> [A EXCEPT ![OWN] = Spread(A, initialTasks)], tasks |-> OWN]

\* A getAll that returns this.tasks itself.
getAll_alias(A, t) == [arrays |-> A, ref |-> t]

\* A getAll that hands over the tasks and empties this.tasks (splice(0)).
getAll_drains(A, t) ==
    [arrays |-> [A EXCEPT ![SNAP] = Spread(A, t), ![t] = <<>>], ref |-> SNAP]

\* getAll(): return [...this.tasks]
getAll(A, t) ==
    [arrays |-> [A EXCEPT ![SNAP] = Spread(A, t)], ref |-> SNAP]

\* A filter whose comparison is inverted (task.status !== status).
filter_inverted(H, s, status) == SelectSeq(s, LAMBDA r : H[r].status # status)

\* A filter that returns its matches last-inserted first.
filter_reversed(H, s, status) ==
    Reverse(SelectSeq(s, LAMBDA r : H[r].status = status))

\* this.tasks.filter((task) => task.status === status)
filter(H, s, status) == SelectSeq(s, LAMBDA r : H[r].status = status)

\* getByStatus(status)
getByStatus(H, A, t, status) ==
    [arrays |-> [A EXCEPT ![SNAP] = filter(H, A[t], status)], ref |-> SNAP]

\* An add that puts the task in the place of the last one.
add_replacesLast(A, t, newTask) ==
    [A EXCEPT ![t] = SubSeq(@, 1, Len(@) - 1) \o <<newTask>>]

\* An add that pushes the task twice.
add_twice(A, t, newTask) == [A EXCEPT ![t] = Append(Append(@, newTask), newTask)]

\* An add that puts the task at the front (unshift).
add_unshift(A, t, newTask) == [A EXCEPT ![t] = <<newTask>> \o @]

\* add(newTask): this.tasks.push(newTask)
add(A, t, newTask) == [A EXCEPT ![t] = Append(@, newTask)]

\* A find that returns the last match (findLast).
find_last(H, s, taskId) ==
    LET hits == {i \in 1..Len(s) : H[s[i]].id = taskId}
    IN  IF hits = {} THEN 0
        ELSE s[CHOOSE i \in hits : \A j \in hits : i >= j]

\* A find whose comparison is inverted (task.id !== taskId).
find_inverted(H, s, taskId) ==
    LET hits == {i \in 1..Len(s) : H[s[i]].id # taskId}
    IN  IF hits = {} THEN 0
        ELSE s[CHOOSE i \in hits : \A j \in hits : i <= j]

\* this.tasks.find((task) => task.id === taskId): the first match, 0 for undefined
find(H, s, taskId) ==
    LET hits == {i \in 1..Len(s) : H[s[i]].id = taskId}
    IN  IF hits = {} THEN 0
        ELSE s[CHOOSE i \in hits : \A j \in hits : i <= j]

\* An updateTaskStatus that reports success without writing the status.
updateTaskStatus_noWrite(H, s, taskId, targetStatus) ==
    LET targetTask == find(H, s, taskId)
    IN  IF targetTask = 0
        THEN [heap |-> H, ret |-> FALSE, threw |-> FALSE]
        ELSE IF H[targetTask].status = targetStatus
        THEN [heap |-> H, ret |-> FALSE, threw |-> FALSE]
        ELSE [heap |-> H, ret |-> TRUE, threw |-> FALSE]

\* An updateTaskStatus without the check for an unchanged status.
updateTaskStatus_noSameCheck(H, s, taskId, targetStatus) ==
    LET targetTask == find(H, s, taskId)
    IN  IF targetTask = 0
        THEN [heap |-> H, ret |-> FALSE, threw |-> FALSE]
        ELSE [heap |-> [H EXCEPT ![targetTask].status = targetStatus], ret |-> TRUE, threw |-> FALSE]

\* An updateTaskStatus without the check that find returned a task: reading
\* targetTask.status of undefined raises a TypeError.
updateTaskStatus_noUndefinedCheck(H, s, taskId, targetStatus) ==
    LET targetTask == find(H, s, taskId)
    IN  IF targetTask = 0
        THEN [heap |-> H, ret |-> FALSE, threw |-> TRUE]
        ELSE IF H[targetTask].status = targetStatus
        THEN [heap |-> H, ret |-> FALSE, threw |-> FALSE]
        ELSE [heap |-> [H EXCEPT ![targetTask].status = targetStatus],
              ret |-> TRUE, threw |-> FALSE]

\* An updateTaskStatus that refuses a move into a column that already holds
\* a task.
updateTaskStatus_columnLimit(H, s, taskId, targetStatus) ==
    LET targetTask == find(H, s, taskId)
    IN  IF targetTask = 0
        THEN [heap |-> H, ret |-> FALSE, threw |-> FALSE]
        ELSE IF H[targetTask].status = targetStatus
        THEN [heap |-> H, ret |-> FALSE, threw |-> FALSE]
        ELSE IF \E r \in SeqRange(s) : H[r].status = targetStatus
        THEN [heap |-> H, ret |-> FALSE, threw |-> FALSE]
        ELSE [heap |-> [H EXCEPT ![targetTask].status = targetStatus],
              ret |-> TRUE, threw |-> FALSE]

\* An updateTaskStatus that moves the task but reports false.
updateTaskStatus_silentWrite(H, s, taskId, targetStatus) ==
    LET targetTask == find(H, s, taskId)
    IN  IF targetTask = 0
        THEN [heap |-> H, ret |-> FALSE, threw |-> FALSE]
        ELSE IF H[targetTask].status = targetStatus
        THEN [heap |-> H, ret |-> FALSE, threw |-> FALSE]
        ELSE [heap |-> [H EXCEPT ![targetTask].status = targetStatus],
              ret |-> FALSE, threw |-> FALSE]

\* An updateTaskStatus that also blanks the id of the task it moves.
updateTaskStatus_clearsId(H, s, taskId, targetStatus) ==
    LET targetTask == find(H, s, taskId)
    IN  IF targetTask = 0
        THEN [heap |-> H, ret |-> FALSE, threw |-> FALSE]
        ELSE IF H[targetTask].status = targetStatus
        THEN [heap |-> H, ret |-> FALSE, threw |-> FALSE]
        ELSE [heap |-> [H EXCEPT ![targetTask] = Task("", targetStatus)],
              ret |-> TRUE, threw |-> FALSE]

\* An updateTaskStatus that moves every task carrying the id, not only the
\* one find returns.
updateTaskStatus_allMatches(H, s, taskId, targetStatus) ==
    LET targetTask == find(H, s, taskId)
    IN  IF targetTask = 0
        THEN [heap |-> H, ret |-> FALSE, threw |-> FALSE]
        ELSE IF H[targetTask].status = targetStatus
        THEN [heap |-> H, ret |-> FALSE, threw |-> FALSE]
        ELSE [heap |-> [r \in DOMAIN H |->
                          IF r \in SeqRange(s) /\ H[r].id = taskId
                          THEN Task(H[r].id, targetStatus) ELSE H[r]],
              ret |-> TRUE, threw |-> FALSE]

\* An updateTaskStatus that assigns the id where the status belongs
\* (targetTask.status = taskId).
updateTaskStatus_writesId(H, s, taskId, targetStatus) ==
    LET targetTask == find(H, s, taskId)
    IN  IF targetTask = 0
        THEN [heap |-> H, ret |-> FALSE, threw |-> FALSE]
        ELSE IF H[targetTask].status = targetStatus
        THEN [heap |-> H, ret |-> FALSE, threw |-> FALSE]
        ELSE [heap |-> [H EXCEPT ![targetTask].status = taskId],
              ret |-> TRUE, threw |-> FALSE]

\* An updateTaskStatus that refuses to move a task out of the last column.
updateTaskStatus_doneIsFinal(H, s, taskId, targetStatus) ==
    LET targetTask == find(H, s, taskId)
    IN  IF targetTask = 0
        THEN [heap |-> H, ret |-> FALSE, threw |-> FALSE]
        ELSE IF H[targetTask].status = targetStatus
                  \/ H[targetTask].status = COLUMN_TITLES[Len(COLUMN_TITLES)]
        THEN [heap |-> H, ret |-> FALSE, threw |-> FALSE]
        ELSE [heap |-> [H EXCEPT ![targetTask].status = targetStatus],
              ret |-> TRUE, threw |-> FALSE]

\* updateTaskStatus(taskId, targetStatus).  No statement of the method raises
\* an error: targetTask.status is read and written only after the check that
\* find returned a task.
updateTaskStatus(H, s, taskId, targetStatus) ==
    LET targetTask == find(H, s, taskId)
    IN  IF targetTask = 0
        THEN [heap |-> H, ret |-> FALSE, threw |-> FALSE]
        ELSE IF H[targetTask].status = targetStatus
        THEN [heap |-> H, ret |-> FALSE, threw |-> FALSE]
        ELSE [heap |-> [H EXCEPT ![targetTask].status = targetStatus], ret |-> TRUE, threw |-> FALSE]

----------------------------------------------------------------------------
(* ../utils: the drag transfer payload, a key-value channel *)

EmptyTransfer == <<>>

\* write(key, value)
setDraggedTaskId(dataTransfer, taskId) ==
    [k \in DOMAIN dataTransfer \cup {DRAG_KEY} |->
        IF k = DRAG_KEY THEN taskId ELSE dataTransfer[k]]

\* read(key) -> optional value: <<>> when absent, <<value>> when present
getDraggedTaskId(dataTransfer) ==
    IF DRAG_KEY \in DOMAIN dataTransfer THEN <<dataTransfer[DRAG_KEY]>> ELSE <<>>

\* !taskId : an absent value and the empty string are falsy
IsFalsy(taskId) == taskId = <<>> \/ taskId[1] = ""

\* An onDrag that leaves a payload already written as it is (first write
\* wins).
onDrag_keepsFirst(H, s, dataTransfer, taskId) ==
    [heap |-> H,
     channel |-> IF getDraggedTaskId(dataTransfer) # <<>>
                 THEN dataTransfer
                 ELSE setDraggedTaskId(dataTransfer, taskId)]

\* An onDrag that already moves the dragged task to the last column.
onDrag_movesTask(H, s, dataTransfer, taskId) ==
    [heap |-> updateTaskStatus(H, s, taskId, "Done").heap,
     channel |-> setDraggedTaskId(dataTransfer, taskId)]

\* onDrag(taskId, dataTransfer): writes the id, whatever it is, and does
\* nothing else.
onDrag(H, s, dataTransfer, taskId) ==
    [heap |-> H, channel |-> setDraggedTaskId(dataTransfer, taskId)]

\* An onDrop that takes the empty string for an id (taskId === null in the
\* place of !taskId).
onDrop_emptyIsId(H, s, dataTransfer, targetStatus) ==
    LET taskId == getDraggedTaskId(dataTransfer)
    IN  IF taskId = <<>>
        THEN [heap |-> H, ret |-> FALSE, threw |-> FALSE]
        ELSE updateTaskStatus(H, s, taskId[1], targetStatus)

\* An onDrop that calls updateTaskStatus and drops its result.
onDrop_dropsResult(H, s, dataTransfer, targetStatus) ==
    LET taskId == getDraggedTaskId(dataTransfer)
    IN  IF IsFalsy(taskId)
        THEN [heap |-> H, ret |-> FALSE, threw |-> FALSE]
        ELSE [heap |-> updateTaskStatus(H, s, taskId[1], targetStatus).heap,
              ret |-> FALSE, threw |-> FALSE]

\* An onDrop that reports success when there is no payload.
onDrop_trueOnAbsent(H, s, dataTransfer, targetStatus) ==
    LET taskId == getDraggedTaskId(dataTransfer)
    IN  IF IsFalsy(taskId)
        THEN [heap |-> H, ret |-> TRUE, threw |-> FALSE]
        ELSE updateTaskStatus(H, s, taskId[1], targetStatus)

\* onDrop(dataTransfer, targetStatus)
onDrop(H, s, dataTransfer, targetStatus) ==
    LET taskId == getDraggedTaskId(dataTransfer)
    IN  IF IsFalsy(taskId)
        THEN [heap |-> H, ret |-> FALSE, threw |-> FALSE]
        ELSE updateTaskStatus(H, s, taskId[1], targetStatus)

----------------------------------------------------------------------------
(* KanbanBoard: the component that owns a TaskList *)

\* refreshBoard(): setRefreshKey((currentValue) => currentValue + 1)
refreshBoard(currentValue) == currentValue + 1

\* handleTaskDragStart(taskId, event): taskList.onDrag(taskId, event.dataTransfer)
handleTaskDragStart(H, s, dataTransfer, taskId) == onDrag(H, s, dataTransfer, taskId)

\* The columns of the element KanbanBoard returns:
\*   COLUMN_TITLES.map((title) => <KanbanColumn tasks={taskList.getByStatus(title)} />)
\* each column showing the id and status its tasks have when it is rendered.
render(H, A, t) ==
    [title \in SeqRange(COLUMN_TITLES) |->
        Contents(H, getByStatus(H, A, t, title).arrays[getByStatus(H, A, t, title).ref])]

\* A handleColumnDrop that never refreshes.
handleColumnDrop_neverRefresh(H, s, dataTransfer, status, key) ==
    LET r == onDrop(H, s, dataTransfer, status)
    IN  [heap |-> r.heap, threw |-> r.threw, refreshKey |-> key]

\* A handleColumnDrop that refreshes whatever onDrop returned.
handleColumnDrop_alwaysRefresh(H, s, dataTransfer, status, key) ==
    LET r == onDrop(H, s, dataTransfer, status)
    IN  [heap |-> r.heap, threw |-> r.threw,
         refreshKey |-> IF r.threw THEN key ELSE refreshBoard(key)]

\* handleColumnDrop(event, status):
\*   const isMoved = taskList.onDrop(event.dataTransfer, status);
\*   if (isMoved) refreshBoard();
handleColumnDrop(H, s, dataTransfer, status, key) ==
    LET r == onDrop(H, s, dataTransfer, status)
        isMoved == r.ret
    IN  [heap |-> r.heap, threw |-> r.threw,
         refreshKey |-> IF ~r.threw /\ isMoved THEN refreshBoard(key) ELSE key]

----------------------------------------------------------------------------
(* The state after construction *)

\* new TaskList(seed): the state after construction from a seed sequence of
\* newly created Tasks, which only the constructing expression refers to.
Constructed(seed) ==
    LET A0 == [a \in {SEED, OWN, SNAP} |->
                  IF a = SEED THEN [i \in 1..Len(seed) |-> i] ELSE <<>>]
        made == constructor(A0, SEED)
    IN  /\ heap = seed
        /\ arrays = [a \in {OWN, SNAP} |-> made.arrays[a]]
        /\ tasks = made.tasks
        /\ held = NONE
        /\ channel = EmptyTransfer
        /\ refreshKey = 0
        /\ inserted = [i \in 1..Len(seed) |-> i]
        /\ last = Call("constructor", NoArg, NoArg, <<>>)

\* The seed sequences with ids drawn from ids: from none given (the default,
\* []) up to MaxSeed tasks.
SeedTasks(ids) ==
    UNION {[1..n -> [id : ids, status : TaskStatus]] : n \in 0..MaxSeed}

\* No board has rendered the collection.
NotRendered == <<>>

Init == \E seed \in SeedTasks(TaskIds) : Constructed(seed) /\ columns = NotRendered

InitRead == \E seed \in SeedTasks(ReadIds) : Constructed(seed) /\ columns = NotRendered

\* The board after its first render: useState(() => new TaskList(seed)),
\* useState(0), and the columns of the returned element.
InitBoard ==
    \E seed \in SeedTasks(TaskIds) :
        Constructed(seed) /\ columns = render(heap, arrays, tasks)

\* const seed = [...]; const list = new TaskList(seed); const other = new
\* TaskList(seed): the seed array stays with the caller, and two collections
\* are constructed from it.
ConstructedTwice(seed) ==
    LET A0 == [a \in {SEED, OWN, SECOND, SNAP} |->
                  IF a = SEED THEN [i \in 1..Len(seed) |-> i] ELSE <<>>]
        made == constructor(A0, SEED)
        again == constructor(A0, SEED)
    IN  /\ heap = seed
        /\ arrays = [made.arrays EXCEPT ![SECOND] = again.arrays[again.tasks]]
        /\ tasks = made.tasks
        /\ held = NONE
        /\ channel = EmptyTransfer
        /\ refreshKey = 0
        /\ inserted = [i \in 1..Len(seed) |-> i]
        /\ last = Call("constructor", NoArg, NoArg, <<>>)

InitSeed ==
    \E seed \in SeedTasks(ReadIds) : ConstructedTwice(seed) /\ columns = NotRendered

----------------------------------------------------------------------------
(* The operations *)

\* taskList.add({id, status}) with a newly created Task
Add(id, status) ==
    /\ Len(heap) < MaxTasks
    /\ heap' = Append(heap, Task(id, status))
    /\ arrays' = add(arrays, tasks, Len(heap) + 1)
    /\ inserted' = Append(inserted, Len(heap) + 1)
    /\ last' = Call("add", id, status, <<>>)
    /\ UNCHANGED <<refreshKey, columns, tasks, held, channel>>

UpdateTaskStatus(taskId, targetStatus) ==
    LET r == updateTaskStatus(heap, arrays[tasks], taskId, targetStatus)
    IN  /\ heap' = r.heap
        /\ last' = CallOf("updateTaskStatus", taskId, targetStatus, r)
        /\ UNCHANGED <<refreshKey, columns, arrays, tasks, held, channel, inserted>>

OnDrag(taskId) ==
    LET r == onDrag(heap, arrays[tasks], channel, taskId)
    IN  /\ heap' = r.heap
        /\ channel' = r.channel
        /\ last' = Call("onDrag", taskId, NoArg, <<>>)
        /\ UNCHANGED <<refreshKey, columns, arrays, tasks, held, inserted>>

\* A drop of the gesture's own DataTransfer.
OnDrop(targetStatus) ==
    LET r == onDrop(heap, arrays[tasks], channel, targetStatus)
    IN  /\ heap' = r.heap
        /\ last' = CallOf("onDrop", NoArg, targetStatus, r)
        /\ UNCHANGED <<refreshKey, columns, arrays, tasks, held, channel, inserted>>

\* A drop whose DataTransfer no onDrag wrote into.
OnDropForeign(targetStatus) ==
    LET r == onDrop(heap, arrays[tasks], EmptyTransfer, targetStatus)
    IN  /\ heap' = r.heap
        /\ last' = CallOf("onDropForeign", NoArg, targetStatus, r)
        /\ UNCHANGED <<refreshKey, columns, arrays, tasks, held, channel, inserted>>

\* const result = taskList.getAll()
GetAll ==
    LET r == getAll(arrays, tasks)
    IN  /\ arrays' = r.arrays
        /\ held' = r.ref
        /\ last' = Call("getAll", NoArg, NoArg, <<>>)
        /\ UNCHANGED <<refreshKey, columns, heap, tasks, channel, inserted>>

\* const result = taskList.getByStatus(status)
GetByStatus(status) ==
    LET r == getByStatus(heap, arrays, tasks, status)
    IN  /\ arrays' = r.arrays
        /\ held' = r.ref
        /\ last' = Call("getByStatus", NoArg, status, <<>>)
        /\ UNCHANGED <<refreshKey, columns, heap, tasks, channel, inserted>>

\* The caller changes a result right after obtaining it.
JustRead == held # NONE /\ last.op \in {"getAll", "getByStatus"}

\* result.push(task), with the Task the caller created last
ResultPush ==
    /\ JustRead
    /\ Len(heap) > 0
    /\ arrays' = [arrays EXCEPT ![held] = Append(@, Len(heap))]
    /\ last' = Call("push", NoArg, NoArg, <<>>)
    /\ UNCHANGED <<refreshKey, columns, heap, tasks, held, channel, inserted>>

\* result.pop()
ResultPop ==
    /\ JustRead
    /\ Len(arrays[held]) > 0
    /\ arrays' = [arrays EXCEPT ![held] = SubSeq(@, 1, Len(@) - 1)]
    /\ last' = Call("pop", NoArg, NoArg, <<>>)
    /\ UNCHANGED <<refreshKey, columns, heap, tasks, held, channel, inserted>>

\* result.reverse()
ResultReverse ==
    /\ JustRead
    /\ Len(arrays[held]) > 1
    /\ arrays' = [arrays EXCEPT ![held] = Reverse(@)]
    /\ last' = Call("reverse", NoArg, NoArg, <<>>)
    /\ UNCHANGED <<refreshKey, columns, heap, tasks, held, channel, inserted>>

\* result[i].status = status
ResultSetStatus(i, status) ==
    /\ JustRead
    /\ i \in 1..Len(arrays[held])
    /\ heap' = [heap EXCEPT ![arrays[held][i]].status = status]
    /\ last' = Call("setStatus", heap[arrays[held][i]].id, status, <<>>)
    /\ UNCHANGED <<refreshKey, columns, arrays, tasks, held, channel, inserted>>

\* seed.push({id, status}) by the code that built the seed
SeedPush(id, status) ==
    /\ Len(heap) < MaxTasks
    /\ heap' = Append(heap, Task(id, status))
    /\ arrays' = [arrays EXCEPT ![SEED] = Append(@, Len(heap) + 1)]
    /\ last' = Call("seed.push", id, status, <<>>)
    /\ UNCHANGED <<refreshKey, columns, tasks, held, channel, inserted>>

\* seed.pop() by the code that built the seed
SeedPop ==
    /\ Len(arrays[SEED]) > 0
    /\ arrays' = [arrays EXCEPT ![SEED] = SubSeq(@, 1, Len(@) - 1)]
    /\ last' = Call("seed.pop", NoArg, NoArg, <<>>)
    /\ UNCHANGED <<refreshKey, columns, heap, tasks, held, channel, inserted>>

\* other.updateTaskStatus(taskId, targetStatus) on the second collection
OtherUpdateTaskStatus(taskId, targetStatus) ==
    LET r == updateTaskStatus(heap, arrays[SECOND], taskId, targetStatus)
    IN  /\ heap' = r.heap
        /\ last' = CallOf("other.updateTaskStatus", taskId, targetStatus, r)
        /\ UNCHANGED <<refreshKey, columns, arrays, tasks, held, channel, inserted>>

\* The drag-start event of a task card.
HandleTaskDragStart(taskId) ==
    LET r == handleTaskDragStart(heap, arrays[tasks], channel, taskId)
    IN  /\ heap' = r.heap
        /\ channel' = r.channel
        /\ last' = Call("handleTaskDragStart", taskId, NoArg, <<>>)
        /\ UNCHANGED <<refreshKey, columns, arrays, tasks, held, inserted>>

\* The drop event of a column, with the DataTransfer of the drag gesture.
\* A changed refresh counter makes the component render again.
HandleColumnDrop(status) ==
    LET r == handleColumnDrop(heap, arrays[tasks], channel, status, refreshKey)
    IN  /\ refreshKey < MaxRefresh
        /\ heap' = r.heap
        /\ refreshKey' = r.refreshKey
        /\ columns' = IF r.refreshKey # refreshKey
                      THEN render(r.heap, arrays, tasks) ELSE columns
        /\ last' = [Call("handleColumnDrop", NoArg, status, <<>>)
                       EXCEPT !.threw = r.threw]
        /\ UNCHANGED <<arrays, tasks, held, channel, inserted>>

\* The drop event of a column, with a DataTransfer no onDrag wrote into.
HandleColumnDropForeign(status) ==
    LET r == handleColumnDrop(heap, arrays[tasks], EmptyTransfer, status, refreshKey)
    IN  /\ refreshKey < MaxRefresh
        /\ heap' = r.heap
        /\ refreshKey' = r.refreshKey
        /\ columns' = IF r.refreshKey # refreshKey
                      THEN render(r.heap, arrays, tasks) ELSE columns
        /\ last' = [Call("handleColumnDropForeign", NoArg, status, <<>>)
                       EXCEPT !.threw = r.threw]
        /\ UNCHANGED <<arrays, tasks, held, channel, inserted>>

Next ==
    \/ \E id \in TaskIds, status \in TaskStatus : Add(id, status)
    \/ \E id \in TaskIds, status \in TaskStatus : UpdateTaskStatus(id, status)
    \/ \E id \in TaskIds : OnDrag(id)
    \/ \E status \in TaskStatus : OnDrop(status)
    \/ \E status \in TaskStatus : OnDropForeign(status)

Spec == Init /\ [][Next]_vars

\* The collection with its read operations and a caller that keeps, and
\* changes, what they return.
NextRead ==
    \/ \E id \in ReadIds, status \in TaskStatus : Add(id, status)
    \/ \E id \in ReadIds, status \in TaskStatus : UpdateTaskStatus(id, status)
    \/ GetAll
    \/ \E status \in TaskStatus : GetByStatus(status)
    \/ ResultPush
    \/ ResultPop
    \/ ResultReverse
    \/ \E i \in 1..MaxTasks, status \in TaskStatus : ResultSetStatus(i, status)

SpecRead == InitRead /\ [][NextRead]_vars

\* Moves only, on a seeded collection.
NextMove ==
    \E id \in TaskIds, status \in TaskStatus : UpdateTaskStatus(id, status)

SpecMove == Init /\ [][NextMove]_vars

\* One drag gesture after another on a seeded collection: drag starts and
\* drops of the gesture's DataTransfer only.
NextDrag ==
    \/ \E id \in TaskIds : OnDrag(id)
    \/ \E status \in TaskStatus : OnDrop(status)

SpecDrag == Init /\ [][NextDrag]_vars

\* Two collections constructed from one seed array that its maker keeps.
NextSeed ==
    \/ \E id \in ReadIds, status \in TaskStatus : SeedPush(id, status)
    \/ SeedPop
    \/ \E id \in ReadIds, status \in TaskStatus : UpdateTaskStatus(id, status)
    \/ \E id \in ReadIds, status \in TaskStatus : OtherUpdateTaskStatus(id, status)

SpecSeed == InitSeed /\ [][NextSeed]_vars

\* The board: its TaskList is private to the component and is reached only
\* through the drag-start and drop handlers.
NextBoard ==
    \/ \E id \in TaskIds : HandleTaskDragStart(id)
    \/ \E status \in TaskStatus : HandleColumnDrop(status)
    \/ \E status \in TaskStatus : HandleColumnDropForeign(status)

SpecBoard == InitBoard /\ [][NextBoard]_vars

----------------------------------------------------------------------------
(* What the claims speak of *)

\* The array a read operation returned.
ResultOf(r) == r.arrays[r.ref]

\* What getAll() would return in the state (H, A, t).
All(A, t) == ResultOf(getAll(A, t))

\* What getByStatus(status) would return in the state (H, A, t).
Column(H, A, t, status) == ResultOf(getByStatus(H, A, t, status))

\* The tasks of the collection that carry id, by position.
Carriers(H, s, id) == {i \in 1..Len(s) : H[s[i]].id = id}

\* Position i holds the first task, in insertion order, that carries its id.
IsFirstCarrier(H, s, i) == \A j \in 1..(i - 1) : H[s[j]].id # H[s[i]].id

\* The collection itself (size, order, every task's id and status) is the same
\* after the step as before it.
CollectionUnchanged ==
    /\ tasks' = tasks
    /\ arrays'[tasks'] = arrays[tasks]
    /\ Contents(heap', arrays'[tasks']) = Contents(heap, arrays[tasks])

Returned(b) == last.ret = <<b>>

----------------------------------------------------------------------------
(* updateTaskStatus *)

\* C1: updateTaskStatus(id, newStatus), when the task it finds (the first
\* that carries id) has another status, returns true and sets that task's
\* status to newStatus: right afterwards getByStatus(newStatus) contains the
\* task and getByStatus(oldStatus) does not.
C1_SuccessfulMove ==
    [][\A i \in 1..Len(arrays[tasks]) :
          LET T == arrays[tasks][i]
              oldStatus == heap[T].status
          IN  ( /\ last'.op = "updateTaskStatus"
                /\ IsFirstCarrier(heap, arrays[tasks], i)
                /\ last'.id = heap[T].id
                /\ last'.status # oldStatus )
              => /\ last'.ret = <<TRUE>>
                 /\ heap'[T].status = last'.status
                 /\ T \in SeqRange(Column(heap', arrays', tasks', last'.status))
                 /\ T \notin SeqRange(Column(heap', arrays', tasks', oldStatus))
      ]_vars

\* A move has succeeded in a collection of several tasks: the moved task is
\* in its new column.
C1_Witness ==
    /\ last.op = "updateTaskStatus"
    /\ Returned(TRUE)
    /\ Len(arrays[tasks]) >= 2
    /\ \E T \in SeqRange(Column(heap, arrays, tasks, last.status)) :
           heap[T].id = last.id

\* C2 as stated: for every task T of the collection, updateTaskStatus(T.id, S)
\* with S the current status of T returns false and leaves every task
\* unchanged.
C2_Original ==
    [][\A i \in 1..Len(arrays[tasks]) :
          LET T == arrays[tasks][i]
          IN  ( /\ last'.op = "updateTaskStatus"
                /\ last'.id = heap[T].id
                /\ last'.status = heap[T].status )
              => (last'.ret = <<FALSE>> /\ heap' = heap)
      ]_vars

\* C2 as amended: for every task T that is the first of the collection to
\* carry its id, updateTaskStatus(T.id, S) with S the current status of T
\* returns false and leaves every task unchanged.
C2_NoOpOnSameStatus ==
    [][\A i \in 1..Len(arrays[tasks]) :
          LET T == arrays[tasks][i]
          IN  ( /\ last'.op = "updateTaskStatus"
                /\ IsFirstCarrier(heap, arrays[tasks], i)
                /\ last'.id = heap[T].id
                /\ last'.status = heap[T].status )
              => (last'.ret = <<FALSE>> /\ heap' = heap /\ CollectionUnchanged)
      ]_vars

\* updateTaskStatus was called with the current status of the first task
\* carrying the id, and returned false.
C2_Witness ==
    /\ last.op = "updateTaskStatus"
    /\ Returned(FALSE)
    /\ \E i \in 1..Len(arrays[tasks]) :
           /\ IsFirstCarrier(heap, arrays[tasks], i)
           /\ heap[arrays[tasks][i]] = Task(last.id, last.status)

\* C3: for an id that no task of the collection carries,
\* updateTaskStatus(id, anyStatus) returns false and the collection (size,
\* order, every task's id and status) is what it was before the call.
C3_UnknownId ==
    [][( /\ last'.op = "updateTaskStatus"
         /\ Carriers(heap, arrays[tasks], last'.id) = {} )
       => (last'.ret = <<FALSE>> /\ heap' = heap /\ CollectionUnchanged)
      ]_vars

\* updateTaskStatus was called on a collection of tasks none of which carries
\* the id, with a status none of them has.
C3_Witness ==
    /\ last.op = "updateTaskStatus"
    /\ Returned(FALSE)
    /\ Len(arrays[tasks]) >= 2
    /\ Carriers(heap, arrays[tasks], last.id) = {}
    /\ \A i \in 1..Len(arrays[tasks]) : heap[arrays[tasks][i]].status # last.status

----------------------------------------------------------------------------
(* onDrag and onDrop *)

\* The id the latest onDrag wrote into the gesture's DataTransfer.
Dragged == getDraggedTaskId(channel)

\* C4 as stated: for a task with id i in the collection and a status S other
\* than its current one, onDrag(i, channel) followed by onDrop(channel, S)
\* returns true, and afterwards getByStatus(S) contains the task with id i.
C4_Original ==
    [][\A i \in 1..Len(arrays[tasks]) :
          LET T == arrays[tasks][i]
          IN  ( /\ last'.op = "onDrop"
                /\ Dragged = <<heap[T].id>>
                /\ last'.status # heap[T].status )
              => /\ last'.ret = <<TRUE>>
                 /\ \E U \in SeqRange(Column(heap', arrays', tasks', last'.status)) :
                        heap'[U].id = heap[T].id
      ]_vars

\* C4 as amended: for a task T with a non-empty id i that is the first of the
\* collection to carry i, and a status S other than its current one,
\* onDrag(i, channel) followed by onDrop(channel, S) returns true, and
\* afterwards getByStatus(S) contains T.
C4_DragDropRoundTrip ==
    [][\A i \in 1..Len(arrays[tasks]) :
          LET T == arrays[tasks][i]
          IN  ( /\ last'.op = "onDrop"
                /\ Dragged = <<heap[T].id>>
                /\ heap[T].id # ""
                /\ IsFirstCarrier(heap, arrays[tasks], i)
                /\ last'.status # heap[T].status )
              => /\ last'.ret = <<TRUE>>
                 /\ T \in SeqRange(Column(heap', arrays', tasks', last'.status))
      ]_vars

\* A drop has moved the dragged task: onDrop returned true and the task that
\* carries the dragged id is in the target column.
C4_Witness ==
    /\ last.op = "onDrop"
    /\ Returned(TRUE)
    /\ Dragged # <<>>
    /\ \E T \in SeqRange(Column(heap, arrays, tasks, last.status)) :
           Dragged = <<heap[T].id>>

\* C5: onDrop on a channel into which no onDrag has written returns false and
\* leaves the collection unchanged, whatever the target status.
C5_DropWithoutDrag ==
    [][( \/ last'.op = "onDropForeign"
         \/ (last'.op = "onDrop" /\ Dragged = <<>>) )
       => (last'.ret = <<FALSE>> /\ heap' = heap /\ CollectionUnchanged)
      ]_vars

\* A drop with no payload happened on a collection holding a task that the
\* target status would have moved.
C5_Witness ==
    /\ last.op \in {"onDrop", "onDropForeign"}
    /\ (last.op = "onDrop" => Dragged = <<>>)
    /\ Returned(FALSE)
    /\ \E T \in SeqRange(arrays[tasks]) : heap[T].status # last.status

\* C6 as stated: for every id that onDrag wrote into the channel (any
\* string), onDrop(channel, targetStatus) has the result and the effect on the
\* collection that updateTaskStatus(id, targetStatus) has from the same state.
C6_Original ==
    [][(last'.op = "onDrop" /\ Dragged # <<>>)
       => LET u == updateTaskStatus(heap, arrays[tasks], Dragged[1], last'.status)
          IN  /\ last'.ret = <<u.ret>>
              /\ heap' = u.heap
              /\ arrays' = arrays /\ tasks' = tasks
      ]_vars

\* C6 as amended: for every non-empty id that onDrag wrote into the channel,
\* onDrop(channel, targetStatus) has the result and the effect on the
\* collection that updateTaskStatus(id, targetStatus) has from the same state.
C6_DropDelegates ==
    [][(last'.op = "onDrop" /\ Dragged # <<>> /\ Dragged # <<"">>)
       => LET u == updateTaskStatus(heap, arrays[tasks], Dragged[1], last'.status)
          IN  /\ last'.ret = <<u.ret>>
              /\ heap' = u.heap
              /\ arrays' = arrays /\ tasks' = tasks
      ]_vars

\* A drop of a written, non-empty id has returned what updateTaskStatus
\* returns for a task that is in another column: true.
C6_Witness ==
    /\ last.op = "onDrop"
    /\ Dragged # <<>> /\ Dragged # <<"">>
    /\ Returned(TRUE)
    /\ Len(arrays[tasks]) >= 2

----------------------------------------------------------------------------
(* getAll and getByStatus *)

\* C7: every task of the collection is in getByStatus(S) for exactly one S of
\* the closed status set, and the getByStatus(S) results together hold the
\* tasks of getAll(), as sets.
C7_FilterPartition ==
    /\ \A T \in SeqRange(arrays[tasks]) :
          Cardinality({S \in TaskStatus :
                         T \in SeqRange(Column(heap, arrays, tasks, S))}) = 1
    /\ UNION {SeqRange(Column(heap, arrays, tasks, S)) : S \in TaskStatus}
          = SeqRange(All(arrays, tasks))

\* After a move the collection has a task in each of the three columns.
C7_Witness ==
    /\ last.op \in {"updateTaskStatus", "onDrop"}
    /\ Returned(TRUE)
    /\ \A S \in TaskStatus : Column(heap, arrays, tasks, S) # <<>>

\* C8: appending to, removing from or reordering the sequence returned by
\* getAll() or getByStatus() does not change what a later getAll() or
\* getByStatus() returns.
C8_SnapshotIsolation ==
    [][(last'.op \in {"push", "pop", "reverse"})
       => /\ All(arrays', tasks') = All(arrays, tasks)
          /\ Contents(heap', All(arrays', tasks')) = Contents(heap, All(arrays, tasks))
          /\ \A S \in TaskStatus :
                Column(heap', arrays', tasks', S) = Column(heap, arrays, tasks, S)
      ]_vars

\* The caller has reversed the result of getAll() on a collection of several
\* tasks: the array it holds is the collection's array backwards.
C8_Witness ==
    /\ last.op = "reverse"
    /\ held # NONE
    /\ Len(arrays[tasks]) >= 2
    /\ arrays[held] = Reverse(arrays[tasks])

\* C9: the read operations hand out no mutable alias of internal state.
\* Setting the status of a task record taken from a getAll() or getByStatus()
\* result does not change what getByStatus returns later, and a later
\* updateTaskStatus does not change the contents of a result returned earlier.
C9_NoMutableAlias ==
    [][/\ (last'.op = "setStatus")
          => \A S \in TaskStatus :
                Column(heap', arrays', tasks', S) = Column(heap, arrays, tasks, S)
       /\ (last'.op = "updateTaskStatus" /\ held # NONE)
          => Contents(heap', arrays'[held']) = Contents(heap, arrays[held])
      ]_vars

\* C10: getAll() returns the tasks in the order seeded then added, and
\* getByStatus(S) returns the tasks of status S in the same relative order.
C10_InsertionOrder ==
    /\ All(arrays, tasks) = inserted
    /\ (last.op = "getAll") => (arrays[held] = inserted)
    /\ (last.op = "getByStatus")
          => (arrays[held] = SelectSeq(inserted, LAMBDA r : heap[r].status = last.status))

\* Three tasks A, B, C share a status and getByStatus for it has just returned
\* A, B, C.
C10_Witness ==
    /\ last.op = "getByStatus"
    /\ Len(heap) = 3
    /\ \A r \in 1..3 : heap[r].status = last.status
    /\ arrays[held] = <<1, 2, 3>>

----------------------------------------------------------------------------
(* add *)

\* C11: add(task) places the task at the end of the collection: the size
\* grows by exactly one, the new task is the last element of getAll(), and
\* every task already present keeps its position, id and status.
C11_AddAppends ==
    [][(last'.op = "add")
       => LET before == All(arrays, tasks)
              after == All(arrays', tasks')
          IN  /\ Len(after) = Len(before) + 1
              /\ heap'[after[Len(after)]] = Task(last'.id, last'.status)
              /\ after[Len(after)] \notin SeqRange(before)
              /\ SubSeq(after, 1, Len(before)) = before
              /\ \A T \in SeqRange(before) : heap'[T] = heap[T]
      ]_vars

\* A task was added to a collection that already held two tasks, and it is
\* the last of the three.
C11_Witness ==
    /\ last.op = "add"
    /\ Len(arrays[tasks]) = 3
    /\ heap[arrays[tasks][3]] = Task(last.id, last.status)
    /\ arrays[tasks][3] = 3

----------------------------------------------------------------------------
(* Failure is a result, not an error *)

\* The first task of s, in insertion order, that carries id has status.
FirstCarrierHas(H, s, id, status) ==
    \E i \in Carriers(H, s, id) :
        IsFirstCarrier(H, s, i) /\ H[s[i]].status = status

\* C12: no operation raises an error.  updateTaskStatus with an id no task
\* carries, updateTaskStatus to the status the found task already has, and
\* onDrop with no payload all complete normally and return false.
C12_NoErrorRaised ==
    [][/\ last'.threw = FALSE
       /\ ( \/ ( /\ last'.op = "updateTaskStatus"
                 /\ Carriers(heap, arrays[tasks], last'.id) = {} )
            \/ ( /\ last'.op = "updateTaskStatus"
                 /\ FirstCarrierHas(heap, arrays[tasks], last'.id, last'.status) )
            \/ (last'.op = "onDrop" /\ Dragged = <<>>)
            \/ last'.op = "onDropForeign" )
          => last'.ret = <<FALSE>>
      ]_vars

\* updateTaskStatus was called on a collection that holds tasks with an id
\* none of them carries (find returned undefined): it returned false and
\* raised nothing.
C12_Witness ==
    /\ last.op = "updateTaskStatus"
    /\ ~last.threw
    /\ Returned(FALSE)
    /\ Len(arrays[tasks]) >= 1
    /\ Carriers(heap, arrays[tasks], last.id) = {}

----------------------------------------------------------------------------
(* Invariants of the collection *)

\* C13: in every state reached by the constructor, add, updateTaskStatus and
\* onDrop called with statuses of the closed set, every task's status is a
\* member of the closed status set.
C13_StatusInvariant ==
    \A T \in SeqRange(arrays[tasks]) : heap[T].status \in TaskStatus

\* A move has just written a status into a task of a collection of three.
C13_Witness ==
    /\ last.op \in {"updateTaskStatus", "onDrop"}
    /\ Returned(TRUE)
    /\ Len(arrays[tasks]) = 3
    /\ \E T \in SeqRange(arrays[tasks]) : heap[T].status = last.status

\* No two positions of s hold tasks with the same id.
UniqueIds(H, s) ==
    \A i, j \in 1..Len(s) : i # j => H[s[i]].id # H[s[j]].id

\* C14 as stated: in every reachable state of the collection no two tasks
\* carry the same id.
C14_Original == UniqueIds(heap, arrays[tasks])

\* C14 as amended: id uniqueness is preserved, not enforced.  From a state in
\* which no two tasks carry the same id, updateTaskStatus, onDrag, onDrop and
\* an add of a task whose id no task carries lead to a state in which no two
\* tasks carry the same id; the constructor and add accept a duplicate id.
C14_UniquenessPreserved ==
    [][( /\ UniqueIds(heap, arrays[tasks])
         /\ (last'.op = "add" => Carriers(heap, arrays[tasks], last'.id) = {}) )
       => UniqueIds(heap', arrays'[tasks'])
      ]_vars

\* A task with a new id was added to two tasks with different ids: the three
\* ids are different.
C14_Witness ==
    /\ last.op = "add"
    /\ Len(arrays[tasks]) = 3
    /\ UniqueIds(heap, arrays[tasks])

\* The id an updateTaskStatus or onDrop step looks up: the id passed, or the
\* payload of the channel (<<>> when a drop has none).
LookedUp(call) ==
    IF call.op = "updateTaskStatus" THEN <<call.id>>
    ELSE IF call.op = "onDrop" THEN Dragged
    ELSE <<>>

\* C15: when two or more tasks of the collection share an id,
\* updateTaskStatus(id, S) and an onDrop carrying that id compare against and
\* change only the first such task in insertion order: every later task with
\* the id keeps its status, and a true result means that the first one had
\* another status and now has S.
C15_FirstMatch ==
    [][\A id \in TaskIds :
          LET s == arrays[tasks]
              shared == Carriers(heap, s, id)
          IN  ( /\ LookedUp(last') = <<id>>
                /\ Cardinality(shared) >= 2 )
              => \A i \in shared :
                    IF IsFirstCarrier(heap, s, i)
                    THEN /\ last'.ret = <<TRUE>>
                            => ( /\ heap[s[i]].status # last'.status
                                 /\ heap'[s[i]].status = last'.status )
                         /\ (last'.op = "updateTaskStatus"
                               /\ heap[s[i]].status # last'.status)
                            => last'.ret = <<TRUE>>
                    ELSE heap'[s[i]] = heap[s[i]]
      ]_vars

\* updateTaskStatus has moved the first of two tasks that share an id, and
\* the second one still has another status.
C15_Witness ==
    /\ last.op = "updateTaskStatus"
    /\ Returned(TRUE)
    /\ \E i, j \in Carriers(heap, arrays[tasks], last.id) :
          /\ i < j
          /\ IsFirstCarrier(heap, arrays[tasks], i)
          /\ heap[arrays[tasks][i]].status = last.status
          /\ heap[arrays[tasks][j]].status # last.status

----------------------------------------------------------------------------
(* Each task as a state machine over the closed status set *)

\* onDrag(id, channel) followed by onDrop(channel, S), from the state (H, s, ch).
DragThenDrop(H, s, ch, id, S) ==
    LET dragged == onDrag(H, s, ch, id)
    IN  onDrop(dragged.heap, s, dragged.channel, S)

\* C16 as stated: from any state of the collection, for every task T and
\* every status S of the closed set other than T's current status, the pair
\* onDrag(T.id) / onDrop(S) moves T to S (so every status is reachable from
\* every other status and no status is terminal).
C16_Original ==
    \A i \in 1..Len(arrays[tasks]) :
        LET T == arrays[tasks][i]
        IN  \A S \in TaskStatus \ {heap[T].status} :
                LET r == DragThenDrop(heap, arrays[tasks], channel, heap[T].id, S)
                IN  r.ret /\ ~r.threw /\ r.heap[T].status = S

\* C16 as amended: from any state of the collection, for every task T with a
\* non-empty id that is the first of the collection to carry it, and every
\* status S of the closed set other than T's current status, the pair
\* onDrag(T.id) / onDrop(S) moves T to S; for such a task every status is
\* reachable from every other status and no status is terminal.
C16_PerTaskStateMachine ==
    \A i \in 1..Len(arrays[tasks]) :
        LET T == arrays[tasks][i]
        IN  (heap[T].id # "" /\ IsFirstCarrier(heap, arrays[tasks], i))
            => \A S \in TaskStatus \ {heap[T].status} :
                  LET r == DragThenDrop(heap, arrays[tasks], channel, heap[T].id, S)
                  IN  r.ret /\ ~r.threw /\ r.heap[T].status = S

\* A drop has moved the dragged task back into the first column, which it
\* was not in: the last column is not terminal.
C16_Witness ==
    /\ last.op = "onDrop"
    /\ Returned(TRUE)
    /\ last.status = COLUMN_TITLES[1]
    /\ Dragged # <<>>
    /\ \E i \in Carriers(heap, arrays[tasks], Dragged[1]) :
          /\ IsFirstCarrier(heap, arrays[tasks], i)
          /\ heap[arrays[tasks][i]].status = COLUMN_TITLES[1]


----------------------------------------------------------------------------
(* The board *)

\* C17: handleColumnDrop increments the board's refresh counter by exactly
\* one when the drop changed a task's status, and leaves it as it is when
\* the drop changed nothing; a drop with no payload, a drop of an id no task
\* carries, and a drop onto the column the found task is already in change
\* nothing and do not refresh.
C17_RefreshOnRealMove ==
    [][last'.op \in {"handleColumnDrop", "handleColumnDropForeign"} =>
        LET payload == IF last'.op = "handleColumnDrop" THEN Dragged ELSE <<>>
            moved == Contents(heap', arrays'[tasks']) # Contents(heap, arrays[tasks])
        IN  /\ refreshKey' = IF moved THEN refreshKey + 1 ELSE refreshKey
            /\ payload = <<>> => ~moved
            /\ payload # <<>> /\ Carriers(heap, arrays[tasks], payload[1]) = {}
                   => ~moved
            /\ payload # <<>>
                 /\ FirstCarrierHas(heap, arrays[tasks], payload[1], last'.status)
                   => ~moved
            /\ ~last'.threw
      ]_vars

\* Two drops have refreshed the board, and the latest handler was a drop of
\* a carried id whose first carrier now is in the target column.
C17_Witness ==
    /\ last.op = "handleColumnDrop"
    /\ refreshKey = 2
    /\ Dragged # <<>>
    /\ FirstCarrierHas(heap, arrays[tasks], Dragged[1], last.status)


----------------------------------------------------------------------------
(* What a drag start, and a move, leave alone *)

\* C18: onDrag validates nothing and never touches the collection: for any
\* id, carried by a task or not, empty or not, it completes normally, writes
\* that id into the channel, and leaves the collection (size, order, every
\* task's id and status) as it was; and the collection changes in no step
\* other than an add, an updateTaskStatus or an onDrop, so it stays unchanged
\* when no onDrop follows.
C18_DragTouchesNothing ==
    [][/\ (last'.op = "onDrag")
            => /\ heap' = heap
               /\ CollectionUnchanged
               /\ getDraggedTaskId(channel') = <<last'.id>>
               /\ ~last'.threw
       /\ (last'.op \notin {"add", "updateTaskStatus", "onDrop"})
            => CollectionUnchanged
      ]_vars

\* onDrag has just been called with an id that no task of a collection of
\* two carries, and the channel holds that id.
C18_Witness ==
    /\ last.op = "onDrag"
    /\ Len(arrays[tasks]) = 2
    /\ Carriers(heap, arrays[tasks], last.id) = {}
    /\ Dragged = <<last.id>>

\* The ids of the tasks of s, in order.
Ids(H, s) == [i \in 1..Len(s) |-> H[s[i]].id]

\* C19: a task's id never changes: every step either leaves the task records
\* and getAll() as they were, or keeps the ids of getAll(), in order, and at
\* most lets the ids of newly added tasks follow them; no task record
\* changes its id.
C19_IdsNeverChange ==
    [][\/ /\ heap' = heap
          /\ All(arrays', tasks') = All(arrays, tasks)
       \/ LET before == All(arrays, tasks)
              after == All(arrays', tasks')
          IN  /\ Len(after) >= Len(before)
              /\ SubSeq(Ids(heap', after), 1, Len(before)) = Ids(heap, before)
              /\ \A r \in DOMAIN heap : heap'[r].id = heap[r].id
      ]_vars

\* A drop has moved a task of a collection of three tasks whose ids are, in
\* order, "t1", the empty id and "t2".
C19_Witness ==
    /\ last.op = "onDrop"
    /\ Returned(TRUE)
    /\ Ids(heap, arrays[tasks]) = <<"t1", "", "t2">>

\* C20: an updateTaskStatus that returns true changes the status of the one
\* task it found (the first that carries the id) and nothing else: the size
\* and the order of the collection, the id of the found task, and the id and
\* status of every other task are as before.
C20_MoveChangesOneStatus ==
    [][(last'.op = "updateTaskStatus" /\ last'.ret = <<TRUE>>)
       => /\ tasks' = tasks
          /\ arrays'[tasks'] = arrays[tasks]
          /\ DOMAIN heap' = DOMAIN heap
          /\ \E i \in Carriers(heap, arrays[tasks], last'.id) :
                /\ IsFirstCarrier(heap, arrays[tasks], i)
                /\ heap'[arrays[tasks][i]] = Task(last'.id, last'.status)
                /\ heap[arrays[tasks][i]].status # last'.status
                /\ \A r \in DOMAIN heap :
                      r # arrays[tasks][i] => heap'[r] = heap[r]
      ]_vars

\* updateTaskStatus has moved the first of three tasks that all carry the
\* same id; the other two are in the two other columns.
C20_Witness ==
    /\ last.op = "updateTaskStatus"
    /\ Returned(TRUE)
    /\ Len(arrays[tasks]) = 3
    /\ Carriers(heap, arrays[tasks], last.id) = {1, 2, 3}
    /\ heap[arrays[tasks][1]].status = last.status
    /\ {heap[arrays[tasks][2]].status, heap[arrays[tasks][3]].status}
          = TaskStatus \ {last.status}


----------------------------------------------------------------------------
(* Order of a column after a move *)

\* C21: a moved task keeps its insertion position: after an updateTaskStatus
\* that returned true, the task it moved is in getByStatus of the new status,
\* and that column is the insertion history restricted to that status, so
\* the moved task stands before every task of the column inserted after it
\* and not at the end.
C21_MovedKeepsPosition ==
    [][(last'.op = "updateTaskStatus" /\ last'.ret = <<TRUE>>)
       => LET T == find(heap, arrays[tasks], last'.id)
              col == Column(heap', arrays', tasks', last'.status)
          IN  /\ T \in SeqRange(col)
              /\ col = SelectSeq(inserted',
                                  LAMBDA r : heap'[r].status = last'.status)
      ]_vars

\* The first inserted of three tasks has just been moved into the column of
\* the other two, and it is the first of that column.
C21_Witness ==
    /\ last.op = "updateTaskStatus"
    /\ Returned(TRUE)
    /\ Len(arrays[tasks]) = 3
    /\ heap[arrays[tasks][1]].id = last.id
    /\ Column(heap, arrays, tasks, last.status) = arrays[tasks]
    /\ Column(heap, arrays, tasks, last.status)[1] = inserted[1]


----------------------------------------------------------------------------
(* Reads *)

\* C22: getAll() and getByStatus(S) are pure reads: a call of either leaves
\* the task records and the collection (size, order, every task's id and
\* status) as they were, and a call that directly follows the same call, with
\* nothing in between, returns a sequence equal to the one returned before.
C22_PureReads ==
    [][(last'.op \in {"getAll", "getByStatus"})
       => /\ heap' = heap
          /\ CollectionUnchanged
          /\ (last = last' /\ held # NONE)
                => Contents(heap', arrays'[held']) = Contents(heap, arrays[held])
      ]_vars

\* getByStatus has just returned the second of three tasks alone.
C22_Witness ==
    /\ last.op = "getByStatus"
    /\ held # NONE
    /\ Len(arrays[tasks]) = 3
    /\ arrays[held] = <<arrays[tasks][2]>>


----------------------------------------------------------------------------
(* The constructor and its seed *)

\* Right after construction getAll() is the seed sequence, in order, and a
\* later push to or pop from the seed array leaves the collection as it was.
C23_SeedArrayCopied ==
    /\ (last.op = "constructor") => (All(arrays, tasks) = arrays[SEED])
    /\ [][(last'.op \in {"seed.push", "seed.pop"}) => CollectionUnchanged]_vars

\* C23: the constructor takes its own copy of the seed: right after
\* construction getAll() equals the seed sequence in order, appending to or
\* removing from the seed sequence afterwards does not change the
\* collection, and of two collections built from the same seed neither is
\* changed by an updateTaskStatus of the other.
C23_OwnCopyOfSeed ==
    /\ C23_SeedArrayCopied
    /\ [][/\ (last'.op = "other.updateTaskStatus") => CollectionUnchanged
          /\ (last'.op = "updateTaskStatus")
                => Contents(heap', arrays'[SECOND]) = Contents(heap, arrays[SECOND])
         ]_vars


----------------------------------------------------------------------------
(* One drag after another *)

\* onDrag(a, channel), onDrag(b, channel), onDrop(channel, S), from (H, s, ch).
DragDragDrop(H, s, ch, a, b, S) ==
    LET first == onDrag(H, s, ch, a)
    IN  DragThenDrop(first.heap, s, first.channel, b, S)

\* Every task of s that carries id is in G as it is in H.
TasksWithIdUnchanged(H, G, s, id) ==
    \A i \in Carriers(H, s, id) : G[s[i]] = H[s[i]]

\* C24 as stated: the last write wins: from any state, for ids a and b with
\* a different from b and any status S, onDrag(a), onDrag(b), onDrop(S) has
\* the result and the effect of updateTaskStatus(b, S), and leaves every
\* task with id a unchanged.
C24_Original ==
    \A a \in TaskIds : \A b \in TaskIds \ {a}, S \in TaskStatus :
        LET r == DragDragDrop(heap, arrays[tasks], channel, a, b, S)
            u == updateTaskStatus(heap, arrays[tasks], b, S)
        IN  /\ r = u
            /\ TasksWithIdUnchanged(heap, r.heap, arrays[tasks], a)

\* C24 as amended: the last write wins: from any state, for ids a and b with
\* a different from b and any status S, onDrag(a), onDrag(b), onDrop(S) has
\* the result and the effect of updateTaskStatus(b, S) when b is not the
\* empty string, returns false and changes nothing when b is the empty
\* string, and in both cases leaves every task with id a unchanged.
C24_LastWriteWins ==
    \A a \in TaskIds : \A b \in TaskIds \ {a}, S \in TaskStatus :
        LET r == DragDragDrop(heap, arrays[tasks], channel, a, b, S)
            u == updateTaskStatus(heap, arrays[tasks], b, S)
        IN  /\ (b # "") => (r = u)
            /\ (b = "") => (r = [heap |-> heap, ret |-> FALSE, threw |-> FALSE])
            /\ TasksWithIdUnchanged(heap, r.heap, arrays[tasks], a)

\* A drop has moved the task with the id written last, and a task with
\* another, non-empty id is still in a column other than the target.
C24_Witness ==
    /\ last.op = "onDrop"
    /\ Returned(TRUE)
    /\ Dragged # <<>>
    /\ FirstCarrierHas(heap, arrays[tasks], Dragged[1], last.status)
    /\ \E T \in SeqRange(arrays[tasks]) :
          /\ heap[T].id \notin {"", Dragged[1]}
          /\ heap[T].status # last.status


----------------------------------------------------------------------------
(* The result of updateTaskStatus tells whether anything changed *)

\* C25: updateTaskStatus returns true if and only if the call changed the
\* collection: the result is true exactly when a task with the given id
\* exists and the first such task has a status other than the target, and
\* the contents of the collection after the call differ from those before
\* exactly in that case.
C25_TrueIffChanged ==
    [][(last'.op = "updateTaskStatus")
       => LET s == arrays[tasks]
              moves == /\ Carriers(heap, s, last'.id) # {}
                       /\ ~FirstCarrierHas(heap, s, last'.id, last'.status)
              changed == \/ Contents(heap', arrays'[tasks']) # Contents(heap, s)
                         \/ heap' # heap
          IN  /\ ~last'.threw
              /\ (last'.ret = <<TRUE>>) <=> moves
              /\ changed <=> moves
      ]_vars

\* updateTaskStatus has returned false for an id that two tasks carry: the
\* first of them has the target status already, the second has another one.
C25_Witness ==
    /\ last.op = "updateTaskStatus"
    /\ Returned(FALSE)
    /\ \E i, j \in Carriers(heap, arrays[tasks], last.id) :
          /\ i < j
          /\ IsFirstCarrier(heap, arrays[tasks], i)
          /\ heap[arrays[tasks][i]].status = last.status
          /\ heap[arrays[tasks][j]].status # last.status


----------------------------------------------------------------------------
(* Dropping twice *)

\* C26: repeating a drop is idempotent: from any state, for any status S,
\* an onDrop(channel, S) that directly follows an onDrop(channel, S) on the
\* same channel, with no onDrag in between, returns false and leaves the
\* collection as the first drop left it.
C26_RepeatedDrop ==
    \A S \in TaskStatus :
        LET once == onDrop(heap, arrays[tasks], channel, S)
            twice == onDrop(once.heap, arrays[tasks], channel, S)
        IN  /\ ~twice.threw
            /\ twice.ret = FALSE
            /\ twice.heap = once.heap

\* The latest drop returned false although the channel holds a non-empty id
\* that a task carries: the first task carrying it is in the target column
\* already, as a drop just before leaves it.
C26_Witness ==
    /\ last.op = "onDrop"
    /\ Returned(FALSE)
    /\ Dragged # <<>> /\ Dragged # <<"">>
    /\ Len(arrays[tasks]) = 2
    /\ FirstCarrierHas(heap, arrays[tasks], Dragged[1], last.status)


----------------------------------------------------------------------------
(* What the board shows *)

\* C27: the board never shows a stale view: with the collection changed only
\* through handleColumnDrop, after every drag-start and drop handler the
\* columns last rendered (getByStatus for To Do, In Progress and Done at the
\* last render) equal getByStatus of the collection as it is now.
C27_NoStaleView ==
    \A title \in TaskStatus :
        columns[title] = Contents(heap, Column(heap, arrays, tasks, title))

\* A drop has moved a task and the board has rendered again: the refresh
\* counter is 1 and the columns rendered are no longer those of the seed.
C27_Witness ==
    /\ last.op = "handleColumnDrop"
    /\ refreshKey = 1
    /\ Len(arrays[tasks]) = 2
    /\ Dragged # <<>>
    /\ \E T \in SeqRange(arrays[tasks]) :
          /\ heap[T].id = Dragged[1]
          /\ heap[T] \in SeqRange(columns[last.status])


----------------------------------------------------------------------------
(* The size of the collection *)

\* C28: the collection never shrinks: in every reachable state getAll() has
\* as many tasks as were seeded plus as many as add was called, and holds
\* every task that was ever seeded or added.
C28_NeverShrinks ==
    /\ Len(All(arrays, tasks)) = Len(inserted)
    /\ \A k \in 1..Len(inserted) : inserted[k] \in SeqRange(All(arrays, tasks))

\* After two seeded tasks and one add, a drop has moved a task: the
\* collection still holds three tasks.
C28_Witness ==
    /\ last.op = "onDrop"
    /\ Returned(TRUE)
    /\ Len(inserted) = 3
    /\ Len(arrays[tasks]) = 3


----------------------------------------------------------------------------
(* Two moves *)

\* updateTaskStatus(a, S1) then updateTaskStatus(b, S2), from the state (H, s):
\* the task records afterwards and what each of the two calls returned.
MoveThenMove(H, s, a, S1, b, S2) ==
    LET first == updateTaskStatus(H, s, a, S1)
        second == updateTaskStatus(first.heap, s, b, S2)
    IN  [heap |-> second.heap,
         retFirst |-> first.ret, retSecond |-> second.ret,
         threw |-> first.threw \/ second.threw]

\* C29: moves of distinct tasks commute: in a collection whose ids are all
\* different, for two different ids a and b that tasks carry and any
\* statuses S1 and S2, updateTaskStatus(a, S1) then updateTaskStatus(b, S2)
\* leaves the same collection, and gives the call for a and the call for b
\* the same results, as the two calls in the opposite order.
C29_MovesCommute ==
    UniqueIds(heap, arrays[tasks])
    => \A i, j \in 1..Len(arrays[tasks]) : \A S1, S2 \in TaskStatus :
          (i # j)
          => LET s == arrays[tasks]
                 a == heap[s[i]].id
                 b == heap[s[j]].id
                 ab == MoveThenMove(heap, s, a, S1, b, S2)
                 ba == MoveThenMove(heap, s, b, S2, a, S1)
             IN  /\ ab.heap = ba.heap
                 /\ ab.retFirst = ba.retSecond
                 /\ ab.retSecond = ba.retFirst
                 /\ ~ab.threw /\ ~ba.threw

\* A move has just succeeded in a collection of two tasks with different
\* ids that are in different columns.
C29_Witness ==
    /\ last.op = "updateTaskStatus"
    /\ Returned(TRUE)
    /\ Len(arrays[tasks]) = 2
    /\ UniqueIds(heap, arrays[tasks])
    /\ heap[arrays[tasks][1]].status # heap[arrays[tasks][2]].status


----------------------------------------------------------------------------
(* The empty string as a payload *)

\* C30: onDrop treats an empty-string payload as absent: when the id read
\* from the channel is the empty string, onDrop returns false and leaves the
\* collection as it was, whatever updateTaskStatus("", S) would have done,
\* even when a task with id "" has a status other than the target.
C30_EmptyPayloadIsAbsent ==
    [][(last'.op = "onDrop" /\ Dragged = <<"">>)
       => /\ last'.ret = <<FALSE>>
          /\ ~last'.threw
          /\ heap' = heap
          /\ CollectionUnchanged
      ]_vars

\* A drop of the empty string has returned false although a task with id ""
\* is in another column, so that updateTaskStatus("", S) returns true.
C30_Witness ==
    /\ last.op = "onDrop"
    /\ Returned(FALSE)
    /\ Dragged = <<"">>
    /\ \E T \in SeqRange(arrays[tasks]) :
          heap[T].id = "" /\ heap[T].status # last.status
    /\ updateTaskStatus(heap, arrays[tasks], "", last.status).ret

====
